---- MODULE Spec2Model ----
(***************************************************************************)
(* Othello rules engine of src/script.js: the board, the flip resolution   *)
(* (getFlippablePieces), the legal-move scan (getValidMoves), the move     *)
(* handler (handleMove), the turn / pass / end-of-game state machine       *)
(* (switchTurn, renderBoard, checkGameStatus, endGame), the pass timer     *)
(* (setTimeout) and the reset button (initializeGame).                     *)
(*                                                                         *)
(* Every handler of the page runs to completion (JavaScript is single      *)
(* threaded), so each handler is one atomic action.  Time is not modelled: *)
(* a pending pass timer may fire at any later point, timers fire in the    *)
(* order in which they were scheduled (they all have the same delay).      *)
(***************************************************************************)
EXTENDS Integers, Sequences, FiniteSets, TLC

BOARD_SIZE == 8
EMPTY == 0
BLACK == 1
WHITE == 2

\* ---- bounds of the model -------------------------------------------------
\* Number of opening moves of a game that the players choose freely among all
\* legal moves; later moves of the game follow one of the Lines below.
MaxFree == 1
\* Largest number of pass timers pending at the same time.
MaxTimers == 2
\* handleMove is called with rows and columns in -Margin .. BOARD_SIZE-1+Margin.
Margin == 1
\* Number of cells in a row that the boards of FlipSpec fill freely.
MaxWord == 3

VARIABLES
    board,          \* board[r][c] \in {EMPTY, BLACK, WHITE}, r, c \in 0..7
    currentPlayer,  \* BLACK or WHITE
    message,        \* content of messageElement, as a record
    score,          \* content of scoreElement: [black |-> n, white |-> m]
    timers,         \* pending setTimeout callbacks: the nextPlayer each captured
    last,           \* the handler that ran last and its outcome
    played          \* cells of the successful moves since the last initializeGame

vars == <<board, currentPlayer, message, score, timers, last, played>>

Rows == 0 .. (BOARD_SIZE - 1)

DIRECTIONS ==
    << [dr |-> -1, dc |-> 0],  [dr |-> 1, dc |-> 0],
       [dr |-> 0,  dc |-> -1], [dr |-> 0, dc |-> 1],
       [dr |-> -1, dc |-> -1], [dr |-> -1, dc |-> 1],
       [dr |-> 1,  dc |-> -1], [dr |-> 1,  dc |-> 1] >>

\* player === BLACK ? WHITE : BLACK
Opponent(player) == IF player = BLACK THEN WHITE ELSE BLACK

\* The initial placement with the two colours exchanged.
NewBoardSwapped ==
    [r \in Rows |-> [c \in Rows |->
        IF (r = 3 /\ c = 3) \/ (r = 4 /\ c = 4) THEN BLACK
        ELSE IF (r = 3 /\ c = 4) \/ (r = 4 /\ c = 3) THEN WHITE
        ELSE EMPTY]]

\* Array(8).fill(0).map(() => Array(8).fill(EMPTY)), then the four centre discs
NewBoard ==
    [r \in Rows |-> [c \in Rows |->
        IF (r = 3 /\ c = 3) \/ (r = 4 /\ c = 4) THEN WHITE
        ELSE IF (r = 3 /\ c = 4) \/ (r = 4 /\ c = 3) THEN BLACK
        ELSE EMPTY]]

\* board[r][c] raises a TypeError when board[r] is undefined, that is when r is
\* not a row index: the guard of getFlippablePieces reads the cell before it
\* tests the range.
Raises(b, r, c) == r \notin DOMAIN b

\* The guard without the test of the cell: only a column outside the row stops
\* the call.
NotEmptyAtColumnOnly(b, r, c) == c \notin DOMAIN b[r]

\* board[r][c] !== EMPTY, for a row r that exists: a column outside the row
\* reads undefined, which is not EMPTY.
NotEmptyAt(b, r, c) == IF c \in DOMAIN b[r] THEN b[r][c] # EMPTY ELSE TRUE

\* The while loop without the player test after it: a run of opponent discs
\* that reaches the edge of the board is pushed as well.
RECURSIVE WalkLineToEdge(_, _, _, _, _, _, _)
WalkLineToEdge(b, nr, nc, dr, dc, player, line) ==
    IF ~(nr >= 0 /\ nr < BOARD_SIZE /\ nc >= 0 /\ nc < BOARD_SIZE)
    THEN line
    ELSE IF b[nr][nc] = EMPTY THEN << >>
         ELSE IF b[nr][nc] = Opponent(player)
              THEN WalkLineToEdge(b, nr + dr, nc + dc, dr, dc, player,
                                  Append(line, [r |-> nr, c |-> nc]))
              ELSE line

\* The while loop with line.unshift in place of line.push: the farthest disc
\* of a run comes first.
RECURSIVE WalkLineUnshift(_, _, _, _, _, _, _)
WalkLineUnshift(b, nr, nc, dr, dc, player, line) ==
    IF ~(nr >= 0 /\ nr < BOARD_SIZE /\ nc >= 0 /\ nc < BOARD_SIZE)
    THEN << >>
    ELSE LET current == b[nr][nc] IN
         IF current = EMPTY THEN << >>
         ELSE IF current = Opponent(player)
              THEN WalkLineUnshift(b, nr + dr, nc + dc, dr, dc, player,
                                   << [r |-> nr, c |-> nc] >> \o line)
              ELSE IF current = player THEN line
              ELSE WalkLineUnshift(b, nr + dr, nc + dc, dr, dc, player, line)

\* The while loop of one direction: the value pushed onto flippable.
RECURSIVE WalkLine(_, _, _, _, _, _, _)
WalkLine(b, nr, nc, dr, dc, player, line) ==
    IF ~(nr >= 0 /\ nr < BOARD_SIZE /\ nc >= 0 /\ nc < BOARD_SIZE)
    THEN << >>
    ELSE LET current == b[nr][nc] IN
         IF current = EMPTY THEN << >>
         ELSE IF current = Opponent(player)
              THEN WalkLine(b, nr + dr, nc + dc, dr, dc, player,
                            Append(line, [r |-> nr, c |-> nc]))
              ELSE IF current = player THEN line
              ELSE WalkLine(b, nr + dr, nc + dc, dr, dc, player, line)

\* DIRECTIONS.forEach from direction number i on
RECURSIVE ForEachDirection(_, _, _, _, _)
ForEachDirection(b, r, c, player, i) ==
    IF i > Len(DIRECTIONS) THEN << >>
    ELSE WalkLine(b, r + DIRECTIONS[i].dr, c + DIRECTIONS[i].dc,
                  DIRECTIONS[i].dr, DIRECTIONS[i].dc, player, << >>)
         \o ForEachDirection(b, r, c, player, i + 1)

\* The value getFlippablePieces returns when it does not raise.
getFlippablePieces(b, r, c, player) ==
    IF NotEmptyAt(b, r, c) \/ r < 0 \/ r >= BOARD_SIZE \/ c < 0 \/ c >= BOARD_SIZE
    THEN << >>
    ELSE ForEachDirection(b, r, c, player, 1)

\* The cells in the order of the two nested loops of getValidMoves.
ScanOrder == [i \in 1 .. (BOARD_SIZE * BOARD_SIZE) |->
                 [r |-> (i - 1) \div BOARD_SIZE, c |-> (i - 1) % BOARD_SIZE]]

IsValidMove(b, player, m) == Len(getFlippablePieces(b, m.r, m.c, player)) > 0

getValidMoves(b, player) ==
    SelectSeq(ScanOrder, LAMBDA m : IsValidMove(b, player, m))

\* The counting loops of updateScore and endGame.
CountDiscs(b, colour) ==
    Cardinality({m \in {ScanOrder[i] : i \in DOMAIN ScanOrder} : b[m.r][m.c] = colour})

updateScore(b) == [black |-> CountDiscs(b, BLACK), white |-> CountDiscs(b, WHITE)]

\* The message of endGame with the two comparisons exchanged.
ResultMessageSwapped(blackCount, whiteCount) ==
    IF blackCount < whiteCount
    THEN [kind |-> "end", winner |-> "BLACK", first |-> blackCount, second |-> whiteCount]
    ELSE IF whiteCount < blackCount
    THEN [kind |-> "end", winner |-> "WHITE", first |-> whiteCount, second |-> blackCount]
    ELSE [kind |-> "end", winner |-> "DRAW", first |-> blackCount, second |-> whiteCount]

\* The if / else if / else of endGame: the winner and the two numbers in the
\* order in which the message shows them.
ResultMessage(blackCount, whiteCount) ==
    IF blackCount > whiteCount
    THEN [kind |-> "end", winner |-> "BLACK", first |-> blackCount, second |-> whiteCount]
    ELSE IF whiteCount > blackCount
    THEN [kind |-> "end", winner |-> "WHITE", first |-> whiteCount, second |-> blackCount]
    ELSE [kind |-> "end", winner |-> "DRAW", first |-> blackCount, second |-> whiteCount]

\* endGame: the two counting loops, then the message.
endGame(b) ==
    CHOOSE resultMessage \in
        {ResultMessage(n.black, n.white) :
            n \in {[black |-> CountDiscs(b, BLACK), white |-> CountDiscs(b, WHITE)]}} : TRUE

\* checkGameStatus without the test of currentValidMoves: always the turn message.
checkGameStatusTurnOnly(b, player, currentValidMoves, tm) ==
    [board |-> b, currentPlayer |-> player,
     message |-> [kind |-> "turn", player |-> player],
     score |-> updateScore(b), timers |-> tm]

\* checkGameStatus without the test of nextValidMoves: a player without a
\* move always passes, endGame is never called.
checkGameStatusNoEnd(b, player, currentValidMoves, tm) ==
    IF Len(currentValidMoves) = 0
    THEN [board |-> b, currentPlayer |-> player,
          message |-> [kind |-> "pass", player |-> player,
                       next |-> Opponent(player)],
          score |-> updateScore(b),
          timers |-> Append(tm, Opponent(player))]
    ELSE [board |-> b, currentPlayer |-> player,
          message |-> [kind |-> "turn", player |-> player],
          score |-> updateScore(b), timers |-> tm]

\* checkGameStatus with currentPlayer = nextPlayer outside the callback: the
\* turn is handed over as soon as the pass notice is shown.
checkGameStatusEagerPass(b, player, currentValidMoves, tm) ==
    IF Len(currentValidMoves) = 0
    THEN IF Len(getValidMoves(b, Opponent(player))) = 0
         THEN [board |-> b, currentPlayer |-> player, message |-> endGame(b),
               score |-> updateScore(b), timers |-> tm]
         ELSE [board |-> b, currentPlayer |-> Opponent(player),
               message |-> [kind |-> "pass", player |-> player,
                            next |-> Opponent(player)],
               score |-> updateScore(b),
               timers |-> Append(tm, Opponent(player))]
    ELSE [board |-> b, currentPlayer |-> player,
          message |-> [kind |-> "turn", player |-> player],
          score |-> updateScore(b), timers |-> tm]

\* checkGameStatus called by renderBoard for board b and current player player,
\* with tm the timers pending: the state it leaves.  A pass schedules one more
\* timer, which captures nextPlayer.
checkGameStatus(b, player, currentValidMoves, tm) ==
    IF Len(currentValidMoves) = 0
    THEN IF Len(getValidMoves(b, Opponent(player))) = 0
         THEN [board |-> b, currentPlayer |-> player, message |-> endGame(b),
               score |-> updateScore(b), timers |-> tm]
         ELSE [board |-> b, currentPlayer |-> player,
               message |-> [kind |-> "pass", player |-> player,
                            next |-> Opponent(player)],
               score |-> updateScore(b),
               timers |-> Append(tm, Opponent(player))]
    ELSE [board |-> b, currentPlayer |-> player,
          message |-> [kind |-> "turn", player |-> player],
          score |-> updateScore(b), timers |-> tm]

\* renderBoard: the squares are rebuilt, then checkGameStatus(validMoves).
renderBoard(b, player, tm) ==
    checkGameStatus(b, player, getValidMoves(b, player), tm)

\* ---- the moves the players choose ----------------------------------------
C(r, c) == <<r, c>>

\* Games played to a pass or to the end; after MaxFree moves the players of the
\* model keep to these.
Lines ==
    << \* WHITE's 8th move leaves BLACK without a move; WHITE goes on, then BLACK
       << C(2,3), C(2,2), C(2,1), C(1,1), C(4,5), C(2,0), C(0,0), C(0,2),
          C(2,4), C(1,2) >>,
       \* BLACK's 11th move leaves WHITE without a move; BLACK goes on, then WHITE
       << C(5,4), C(5,5), C(4,5), C(3,5), C(2,5), C(5,3), C(3,6), C(3,7),
          C(4,7), C(1,5), C(2,7), C(1,4), C(1,3) >>,
       \* BLACK takes the last WHITE disc with the 9th move
       << C(4,5), C(5,3), C(4,2), C(3,5), C(2,4), C(5,5), C(4,6), C(5,4),
          C(6,4) >>,
       \* WHITE's 10th move ends the game
       << C(4,5), C(5,3), C(4,2), C(5,5), C(5,4), C(3,5), C(5,2), C(5,1),
          C(4,1), C(4,0) >> >>

IsPrefix(s, t) == Len(s) <= Len(t) /\ SubSeq(t, 1, Len(s)) = s

Chosen(r, c) ==
    \/ Len(played) < MaxFree
    \/ \E i \in DOMAIN Lines : IsPrefix(Append(played, C(r, c)), Lines[i])

\* The globals and the page content the handlers read and write.
Here == [board |-> board, currentPlayer |-> currentPlayer, message |-> message,
         score |-> score, timers |-> timers]

\* initializeGame: the new board, BLACK to move, renderBoard, updateScore.
\* Timers already pending stay pending: nothing clears them.
initializeGame(tm) == renderBoard(NewBoard, BLACK, tm)

\* The forEach over flippable without the assignment board[r][c] = currentPlayer.
FlipOnly(b, r, c, player, flippable) ==
    [x \in Rows |-> [y \in Rows |->
        IF \E i \in DOMAIN flippable : flippable[i] = [r |-> x, c |-> y]
        THEN player ELSE b[x][y]]]

\* The forEach over flippable taking the enclosed discs off the board.
PlaceAndRemove(b, r, c, player, flippable) ==
    [x \in Rows |-> [y \in Rows |->
        IF x = r /\ y = c THEN player
        ELSE IF \E i \in DOMAIN flippable : flippable[i] = [r |-> x, c |-> y]
             THEN EMPTY ELSE b[x][y]]]

\* The forEach over flippable writing board[pos.c][pos.r].
PlaceAndFlipTransposed(b, r, c, player, flippable) ==
    [x \in Rows |-> [y \in Rows |->
        IF (x = r /\ y = c)
           \/ \E i \in DOMAIN flippable : flippable[i] = [r |-> y, c |-> x]
        THEN player ELSE b[x][y]]]

\* The board after board[r][c] = currentPlayer and the forEach over flippable.
PlaceAndFlip(b, r, c, player, flippable) ==
    [x \in Rows |-> [y \in Rows |->
        IF (x = r /\ y = c)
           \/ \E i \in DOMAIN flippable : flippable[i] = [r |-> x, c |-> y]
        THEN player ELSE b[x][y]]]

\* switchTurn without the assignment to currentPlayer.
switchTurnKeepPlayer(b, player, tm) == renderBoard(b, player, tm)

\* switchTurn: the other player, then renderBoard.
switchTurn(b, player, tm) == renderBoard(b, Opponent(player), tm)

\* The if statement of handleMove with the test  flippable.length >= 0.
PlaceIfFlippableAnyCell(st, r, c, flippable) ==
    IF Len(flippable) >= 0
    THEN [result |-> "placed",
          state |-> switchTurn(
              PlaceAndFlip(st.board, r, c, st.currentPlayer, flippable),
              st.currentPlayer, st.timers)]
    ELSE [result |-> "rejected", state |-> st]

\* The if statement of handleMove with switchTurn() after it instead of inside.
PlaceIfFlippableAlwaysSwitch(st, r, c, flippable) ==
    IF Len(flippable) > 0
    THEN [result |-> "placed",
          state |-> switchTurn(
              PlaceAndFlip(st.board, r, c, st.currentPlayer, flippable),
              st.currentPlayer, st.timers)]
    ELSE [result |-> "rejected",
          state |-> switchTurn(st.board, st.currentPlayer, st.timers)]

\* The if statement of handleMove, for the list flippable it computed: how the
\* call ends ("placed": a disc was put down, "rejected": nothing was done) and
\* the state it leaves.
PlaceIfFlippable(st, r, c, flippable) ==
    IF Len(flippable) > 0
    THEN [result |-> "placed",
          state |-> switchTurn(
              PlaceAndFlip(st.board, r, c, st.currentPlayer, flippable),
              st.currentPlayer, st.timers)]
    ELSE [result |-> "rejected", state |-> st]

\* handleMove(r, c) called in state st.  "TypeError": getFlippablePieces raised
\* and the exception left handleMove.
handleMove(st, r, c) ==
    IF Raises(st.board, r, c)
    THEN [result |-> "TypeError", state |-> st]
    ELSE CHOOSE h \in
            {PlaceIfFlippable(st, r, c, flippable) :
                flippable \in {getFlippablePieces(st.board, r, c, st.currentPlayer)}} : TRUE

\* The callback of setTimeout, for the timer scheduled first:
\* currentPlayer = nextPlayer, then renderBoard.
passTimeout(st) == renderBoard(st.board, Head(st.timers), Tail(st.timers))

\* The handler leaves state st.
Becomes(st) ==
    /\ Len(st.timers) <= MaxTimers
    /\ board' = st.board
    /\ currentPlayer' = st.currentPlayer
    /\ message' = st.message
    /\ score' = st.score
    /\ timers' = st.timers

\* ---- the state after the script has loaded (initializeGame() at line 224) --
Init ==
    \E st \in {initializeGame(<< >>)} :
        /\ board = st.board
        /\ currentPlayer = st.currentPlayer
        /\ message = st.message
        /\ score = st.score
        /\ timers = st.timers
        /\ last = [op |-> "initializeGame", result |-> "ok"]
        /\ played = << >>

\* ---- the reset button -------------------------------------------------------
InitializeGame ==
    \E st \in {initializeGame(timers)} :
        /\ Becomes(st)
        /\ last' = [op |-> "initializeGame", result |-> "ok"]
        /\ played' = << >>

\* ---- a click on a square, or any other call of handleMove(r, c) ----------
HandleMove(r, c) ==
    \E h \in {handleMove(Here, r, c)} :
        /\ h.result = "placed" => Chosen(r, c)
        /\ Becomes(h.state)
        /\ last' = [op |-> "handleMove", result |-> h.result]
        /\ played' = IF h.result = "placed" THEN Append(played, C(r, c)) ELSE played

\* ---- a pass timer fires -----------------------------------------------------
PassTimeout ==
    /\ timers # << >>
    /\ \E st \in {passTimeout(Here)} :
        /\ Becomes(st)
        /\ last' = [op |-> "timeout", result |-> "ok"]
        /\ UNCHANGED played

ClickRange == (0 - Margin) .. (BOARD_SIZE - 1 + Margin)

Next ==
    \/ InitializeGame
    \/ \E r \in ClickRange, c \in ClickRange : HandleMove(r, c)
    \/ PassTimeout

Spec == Init /\ [][Next]_vars

TypeOK ==
    /\ board \in [Rows -> [Rows -> {EMPTY, BLACK, WHITE}]]
    /\ currentPlayer \in {BLACK, WHITE}
    /\ Len(timers) <= MaxTimers

\* ---- properties -------------------------------------------------------------
Cells == {ScanOrder[i] : i \in DOMAIN ScanOrder}

Range(seq) == {seq[i] : i \in DOMAIN seq}

\* The cells on which a disc of player would flip at least one disc.
FlippableCells(b, player) ==
    {m \in Cells : getFlippablePieces(b, m.r, m.c, player) # << >>}

\* handleMove(r, c) called in state st puts a disc of the current player on
\* the empty cell (r, c).
DiscPlaced(st, r, c) ==
    \E h \in {handleMove(st, r, c)} :
        /\ h.result = "placed"
        /\ st.board[r][c] = EMPTY
        /\ h.state.board[r][c] = st.currentPlayer

\* C1: in every state reached by play and for every cell (r, c) of the board,
\* handleMove(r, c) places a disc if and only if
\* getFlippablePieces(r, c, currentPlayer) is not empty; getValidMoves(player)
\* is exactly the set of cells with a non-empty flip list, so handleMove
\* places a disc exactly on the cells of getValidMoves(currentPlayer).
C1_MoveIffFlippable ==
    /\ \A player \in {BLACK, WHITE} :
          Range(getValidMoves(board, player)) = FlippableCells(board, player)
    /\ \E validMoves \in {Range(getValidMoves(board, currentPlayer))} :
          \A m \in Cells :
             \E placed \in {DiscPlaced(Here, m.r, m.c)} :
                /\ placed <=> Len(getFlippablePieces(board, m.r, m.c, currentPlayer)) > 0
                /\ placed <=> m \in validMoves

\* A disc has just been placed and the player to move has legal moves again.
C1_Witness ==
    /\ last = [op |-> "handleMove", result |-> "placed"]
    /\ Len(played) >= 1
    /\ FlippableCells(board, currentPlayer) # {}

\* C2: handleMove(r, c) on a cell whose flip list for the current player is
\* empty changes nothing: the board, currentPlayer, the message, the score and
\* the pending timers are the same after the call as before it (no turn switch,
\* no pass timer), and the call ends as a rejection.
C2_RejectedMoveNoChange ==
    \A r \in Rows, c \in Rows :
        Len(getFlippablePieces(board, r, c, currentPlayer)) = 0
            => handleMove(Here, r, c) = [result |-> "rejected", state |-> Here]

\* A call of handleMove has just been rejected in the middle of a game.
C2_Witness ==
    /\ last = [op |-> "handleMove", result |-> "rejected"]
    /\ Len(played) >= 2

\* (r, c) is not a cell of the board.
OutOfRange(r, c) == r \notin Rows \/ c \notin Rows

\* C3: for every (r, c) with r or c outside 0..7, getFlippablePieces(r, c,
\* player) returns the empty list and handleMove(r, c) is rejected like any
\* illegal move: no error is raised, board and currentPlayer are unchanged.
C3_OutOfRangeRejected ==
    [][\A r \in ClickRange, c \in ClickRange :
          (OutOfRange(r, c) /\ HandleMove(r, c))
              => /\ ~Raises(board, r, c)
                 /\ last' = [op |-> "handleMove", result |-> "rejected"]
                 /\ UNCHANGED <<board, currentPlayer>>]_vars

\* The cell j steps away from (r, c) in direction number d.
Step(r, c, d, j) ==
    [r |-> r + j * DIRECTIONS[d].dr, c |-> c + j * DIRECTIONS[d].dc]

OnBoard(m) == m.r \in Rows /\ m.c \in Rows

At(b, m) == b[m.r][m.c]

\* In direction d the k cells next to (r, c) hold opponent discs and the cell
\* after them holds a disc of player.
Bracketed(b, r, c, player, d, k) ==
    /\ OnBoard(Step(r, c, d, k + 1))
    /\ At(b, Step(r, c, d, k + 1)) = player
    /\ \A j \in 1 .. k : At(b, Step(r, c, d, j)) = Opponent(player)

\* In direction d the k cells next to (r, c) hold opponent discs and the cell
\* after them is off the board.
RunToEdge(b, r, c, player, d, k) ==
    /\ OnBoard(Step(r, c, d, k))
    /\ ~OnBoard(Step(r, c, d, k + 1))
    /\ \A j \in 1 .. k : At(b, Step(r, c, d, j)) = Opponent(player)

Lengths == 1 .. (BOARD_SIZE - 2)

\* The discs a disc of player on the empty cell (r, c) encloses, by the rule.
ReferenceFlips(b, r, c, player) ==
    UNION { IF OnBoard(Step(r, c, d, 1))
               /\ At(b, Step(r, c, d, 1)) = Opponent(player)
            THEN UNION { IF Bracketed(b, r, c, player, d, k)
                         THEN {Step(r, c, d, j) : j \in 1 .. k}
                         ELSE {} : k \in Lengths }
            ELSE {} : d \in DOMAIN DIRECTIONS }

\* ---- getFlippablePieces on boards that play need not reach -------------------
\* A board that is empty except for the MaxWord cells that follow Centre in
\* direction d, which hold the colours of the word w (cells beyond the edge are
\* left out).
Centre == [r |-> 3, c |-> 3]

Words == [1 .. MaxWord -> {EMPTY, BLACK, WHITE}]

LineBoard(d, w) ==
    [x \in Rows |-> [y \in Rows |->
        IF \E j \in 1 .. MaxWord : Step(Centre.r, Centre.c, d, j) = [r |-> x, c |-> y]
        THEN w[CHOOSE j \in 1 .. MaxWord :
                  Step(Centre.r, Centre.c, d, j) = [r |-> x, c |-> y]]
        ELSE EMPTY]]

\* The page rendered for one of these boards and either player to move.
FlipInit ==
    \E d \in DOMAIN DIRECTIONS, w \in Words, player \in {BLACK, WHITE} :
        \E st \in {renderBoard(LineBoard(d, w), player, << >>)} :
            /\ board = st.board
            /\ currentPlayer = st.currentPlayer
            /\ message = st.message
            /\ score = st.score
            /\ timers = st.timers
            /\ last = [op |-> "renderBoard", result |-> "ok"]
            /\ played = << >>

\* The handlers of the page, started on these boards; the reset button leads
\* to the boards of Spec.
FlipSpec == FlipInit /\ [][Next]_vars

\* C4: for every board (the line boards and the boards reached by play), every
\* empty cell (r, c) and both players, the set of cells
\* getFlippablePieces(r, c, player) returns is the reference set: the runs of
\* opponent discs that start next to (r, c) in one of the 8 directions and are
\* followed at once by a disc of player; a run ended by an EMPTY cell or by
\* the edge of the board contributes no cell.
C4_FlipsAreBracketedRuns ==
    \A m \in Cells, player \in {BLACK, WHITE} :
        board[m.r][m.c] = EMPTY
            => Range(getFlippablePieces(board, m.r, m.c, player))
                   = ReferenceFlips(board, m.r, m.c, player)

\* Some empty cell has a run of opponent discs up to the edge in one direction
\* and discs to flip in another direction.
C4_Witness ==
    \E m \in Cells, player \in {BLACK, WHITE} :
        /\ board[m.r][m.c] = EMPTY
        /\ \E d \in DOMAIN DIRECTIONS, k \in 1 .. (BOARD_SIZE - 1) :
              RunToEdge(board, m.r, m.c, player, d, k)
        /\ Len(getFlippablePieces(board, m.r, m.c, player)) >= 1

\* The number of discs of player that the score sc shows.
CountFor(sc, player) == IF player = BLACK THEN sc.black ELSE sc.white

\* C5: a successful move of player P that flips k >= 1 discs raises
\* blackCount + whiteCount by exactly 1, P's count by exactly k + 1 and lowers
\* the opponent's count by exactly k; BLACK playing (2, 3) on the initial
\* position gives BLACK 4, WHITE 1.  Stated for every legal move of the current
\* player in every reachable state.
C5_ScoreAfterMove ==
    /\ \A m \in Cells :
          \E flippable \in {getFlippablePieces(board, m.r, m.c, currentPlayer)} :
             Len(flippable) >= 1 =>
                \E after \in {handleMove(Here, m.r, m.c).state.score} :
                   /\ after.black + after.white = score.black + score.white + 1
                   /\ CountFor(after, currentPlayer)
                         = CountFor(score, currentPlayer) + Len(flippable) + 1
                   /\ CountFor(after, Opponent(currentPlayer))
                         = CountFor(score, Opponent(currentPlayer)) - Len(flippable)
    /\ (played = << >> /\ currentPlayer = BLACK)
          => handleMove(Here, 2, 3).state.score = [black |-> 4, white |-> 1]

\* BLACK has opened the game with (2, 3).
C5_Witness ==
    /\ last = [op |-> "handleMove", result |-> "placed"]
    /\ played = << C(2, 3) >>
    /\ score = [black |-> 4, white |-> 1]

\* The colour of cell (r, c) at the start of a game.
InitialColour(r, c) ==
    IF <<r, c>> \in {<<3, 3>>, <<4, 4>>} THEN WHITE
    ELSE IF <<r, c>> \in {<<3, 4>>, <<4, 3>>} THEN BLACK
    ELSE EMPTY

\* C6: initializeGame, called in any state (in the middle of a game, with a
\* pass pending, after the end), leaves WHITE on (3,3) and (4,4), BLACK on
\* (3,4) and (4,3), every other cell EMPTY, BLACK as the current player and
\* {(2,3), (3,2), (4,5), (5,4)} as the legal moves of BLACK.
C6_NewGameState ==
    last.op = "initializeGame"
        => /\ \A r \in Rows, c \in Rows : board[r][c] = InitialColour(r, c)
           /\ currentPlayer = BLACK
           /\ Range(getValidMoves(board, BLACK))
                  = {[r |-> 2, c |-> 3], [r |-> 3, c |-> 2],
                     [r |-> 4, c |-> 5], [r |-> 5, c |-> 4]}

\* The game was reset while a pass timer was pending.
C6_Witness ==
    /\ last.op = "initializeGame"
    /\ timers # << >>

\* The player whose disc was placed by the last successful move of the game.
LastMover == board[played[Len(played)][1]][played[Len(played)][2]]

\* C7: right after a successful move of player P, if the opponent O has a
\* legal move on the new board, then O is the current player and the message
\* announces O's turn.
C7_TurnAlternates ==
    last = [op |-> "handleMove", result |-> "placed"]
        => (FlippableCells(board, Opponent(LastMover)) # {}
               => /\ currentPlayer = Opponent(LastMover)
                  /\ message = [kind |-> "turn", player |-> Opponent(LastMover)])

\* WHITE has just moved and BLACK is to move.
C7_Witness ==
    /\ last = [op |-> "handleMove", result |-> "placed"]
    /\ LastMover = WHITE
    /\ currentPlayer = BLACK
    /\ message = [kind |-> "turn", player |-> BLACK]

HasMove(b, player) == FlippableCells(b, player) # {}

C9_TerminalAbsorbing ==
    /\ [](message.kind = "end"
            => \A m \in Cells : handleMove(Here, m.r, m.c).result # "placed")
    /\ [][(message.kind = "end" /\ last'.op # "initializeGame")
            => /\ board' = board
               /\ currentPlayer' = currentPlayer
               /\ message'.kind = "end"]_vars

\* C10: in every reachable state the message matches the board and the current
\* player P: it announces P's turn iff P has a legal move, it is the pass
\* notice for P iff P has none and the opponent has one, and it is the end of
\* the game iff neither player has one.
C10_StatusMatchesBoard ==
    \E cur \in {HasMove(board, currentPlayer)},
       opp \in {HasMove(board, Opponent(currentPlayer))} :
        /\ message.kind \in {"turn", "pass", "end"}
        /\ message.kind = "turn" <=> cur
        /\ message.kind = "pass" <=> (~cur /\ opp)
        /\ message.kind = "end" <=> (~cur /\ ~opp)
        /\ message.kind = "turn" => message.player = currentPlayer
        /\ message.kind = "pass"
              => /\ message.player = currentPlayer
                 /\ message.next = Opponent(currentPlayer)

\* A move has just left the opponent without a legal move.
C10_Witness ==
    /\ last = [op |-> "handleMove", result |-> "placed"]
    /\ message.kind = "pass"
    /\ ~HasMove(board, currentPlayer)

\* C11: between two runs of initializeGame the number of discs never
\* decreases and an occupied cell never becomes EMPTY again, whatever the
\* step is: a move, a rejected call or a pass timer.
C11_DiscsStay ==
    [][last'.op # "initializeGame"
          => \/ board' = board
             \/ /\ \A m \in Cells : At(board, m) # EMPTY => At(board', m) # EMPTY
                /\ score'.black + score'.white >= score.black + score.white
                /\ Cardinality({m \in Cells : At(board', m) # EMPTY})
                      >= Cardinality({m \in Cells : At(board, m) # EMPTY})]_vars

\* A move has just flipped discs in the middle of a game.
C11_Witness ==
    /\ last = [op |-> "handleMove", result |-> "placed"]
    /\ Len(played) >= 4
    /\ score.black + score.white = Len(played) + 4

\* The cell of the last successful move, as a cell record.
LastCell(p) == [r |-> p[Len(p)][1], c |-> p[Len(p)][2]]

\* C12: the board is written only by a successful handleMove and by
\* initializeGame: a rejected call, a call that raises and the pass timer
\* leave every cell as it is; a successful handleMove(r, c) of player P turns
\* (r, c) from EMPTY to P and the cells of the flip list from the opponent's
\* colour to P, and leaves every other cell as it is.
C12_BoardFrame ==
    [][/\ (last'.op = "timeout" \/ last'.result \in {"rejected", "TypeError"})
            => board' = board
       /\ last' = [op |-> "handleMove", result |-> "placed"]
            => \E m \in {LastCell(played')} :
               \E flipped \in {Range(getFlippablePieces(board, m.r, m.c, currentPlayer))} :
                  /\ played' = Append(played, C(m.r, m.c))
                  /\ flipped # {}
                  /\ At(board, m) = EMPTY /\ At(board', m) = currentPlayer
                  /\ \A x \in flipped :
                        At(board, x) = Opponent(currentPlayer)
                           /\ At(board', x) = currentPlayer
                  /\ \A x \in Cells \ (flipped \cup {m}) :
                        At(board', x) = At(board, x)]_vars

\* A move has just been placed and the mover holds more discs than moves were played.
C12_Witness ==
    /\ last = [op |-> "handleMove", result |-> "placed"]
    /\ Len(played) >= 2
    /\ CountFor(score, At(board, LastCell(played))) >= Len(played) + 2

\* C13: handleMove on a cell that holds a disc is rejected whichever player
\* is the current one, and changes nothing; no step ever puts a disc on a cell
\* that held one (a disc changes colour only as a cell of a flip list).
C13_OccupiedCellRejected ==
    /\ [](\A m \in Cells, player \in {BLACK, WHITE} :
             At(board, m) # EMPTY
                => \E st \in {[Here EXCEPT !.currentPlayer = player]} :
                      /\ getFlippablePieces(board, m.r, m.c, player) = << >>
                      /\ handleMove(st, m.r, m.c) = [result |-> "rejected", state |-> st])
    /\ [][last' = [op |-> "handleMove", result |-> "placed"]
             => /\ At(board, LastCell(played')) = EMPTY
                /\ \A m \in Cells :
                      (At(board, m) # EMPTY /\ At(board', m) # At(board, m))
                         => /\ At(board', m) = currentPlayer
                            /\ m \in Range(getFlippablePieces(board,
                                   LastCell(played').r, LastCell(played').c,
                                   currentPlayer))]_vars

\* A call of handleMove has just been rejected, and some disc lies on a cell
\* from which the lines would give the current player discs to flip.
C13_Witness ==
    /\ last = [op |-> "handleMove", result |-> "rejected"]
    /\ \E m \in Cells :
          /\ At(board, m) # EMPTY
          /\ ForEachDirection(board, m.r, m.c, currentPlayer, 1) # << >>

\* The number of cells of the board b that hold colour.
DiscsOf(b, colour) == Cardinality({m \in Cells : At(b, m) = colour})

\* C14: when the game has ended the message gives the result of the board as
\* it is at the end: BLACK wins exactly if the board holds more BLACK than
\* WHITE discs, WHITE wins exactly if it holds more WHITE than BLACK discs, and
\* it is a draw otherwise; the two numbers shown are the two counts.
C14_WinnerFromBoard ==
    message.kind = "end"
        => \E blackCount \in {DiscsOf(board, BLACK)}, whiteCount \in {DiscsOf(board, WHITE)} :
              /\ message.winner = "BLACK" <=> blackCount > whiteCount
              /\ message.winner = "WHITE" <=> whiteCount > blackCount
              /\ message.winner = "DRAW" <=> blackCount = whiteCount
              /\ message.winner \in {"BLACK", "WHITE", "DRAW"}
              /\ message.winner = "WHITE"
                    => message.first = whiteCount /\ message.second = blackCount
              /\ message.winner # "WHITE"
                    => message.first = blackCount /\ message.second = whiteCount

\* A move of WHITE has just ended a game that WHITE wins.
C14_Witness ==
    /\ last = [op |-> "handleMove", result |-> "placed"]
    /\ message.kind = "end"
    /\ message.winner = "WHITE"
    /\ DiscsOf(board, WHITE) > DiscsOf(board, BLACK)

\* C15: the current player changes from X to the other player without a disc
\* of X being placed only as a pass: in the state in which the turn is handed
\* over, X has no legal move and the other player has at least one.  Stated
\* for every step that is not a successful move and not initializeGame, in
\* every interleaving of calls of handleMove, resets and pass timers.
C15_TurnHandedOverOnlyAsPass ==
    [][(/\ currentPlayer' # currentPlayer
        /\ last' # [op |-> "handleMove", result |-> "placed"]
        /\ last'.op # "initializeGame")
          => /\ ~HasMove(board, currentPlayer)
             /\ HasMove(board, currentPlayer')]_vars

\* C16: from initializeGame until the first successful move of the game the
\* current player is BLACK, so the first disc of every game is a BLACK one;
\* this holds as well when the game was reset while a pass timer was pending.
C16_BlackOpensEveryGame ==
    /\ [](played = << >> => currentPlayer = BLACK)
    /\ [][(played = << >> /\ last' = [op |-> "handleMove", result |-> "placed"])
             => At(board', LastCell(played')) = BLACK]_vars

\* C17: while a pass is pending, that is from the pass notice until a pass
\* timer fires, and as long as the game is not reset, no call of handleMove
\* places a disc, on any cell or outside the board, and the board does not
\* change: the current player is the skipped player, who has no legal move,
\* and a timer is pending, so the player who has just moved cannot place a
\* second disc before the turn is handed over.
C17_NoMoveWhilePassPending ==
    /\ [](message.kind = "pass"
            => /\ currentPlayer = message.player
               /\ message.next = Opponent(currentPlayer)
               /\ timers # << >>
               /\ ~HasMove(board, currentPlayer)
               /\ \A r \in ClickRange, c \in ClickRange :
                     \E h \in {handleMove(Here, r, c)} :
                        h.result # "placed" /\ h.state = Here)
    /\ [][(message.kind = "pass" /\ last'.op # "initializeGame")
             => /\ board' = board
                /\ last'.result # "placed"
                /\ played' = played
                /\ last'.op = "handleMove"
                      => UNCHANGED <<currentPlayer, message, score, timers>>]_vars

\* A call of handleMove has just been rejected while the pass notice of a
\* player who moved before is shown.
C17_Witness ==
    /\ message.kind = "pass"
    /\ last = [op |-> "handleMove", result |-> "rejected"]
    /\ Len(played) >= 8
    /\ LastMover = Opponent(currentPlayer)

\* ---- games played to the end, without a reset ---------------------------------
\* After MaxFree moves the player to move clicks the first square that
\* renderBoard marks as a valid move.
FirstListed(r, c) ==
    \/ Len(played) < MaxFree
    \/ \E validMoves \in {getValidMoves(board, currentPlayer)} :
          validMoves # << >> /\ validMoves[1] = [r |-> r, c |-> c]

\* handleMove(r, c) called by a click or directly, in such a game.
ClickSquare(r, c) ==
    \E h \in {handleMove(Here, r, c)} :
        /\ h.result = "placed" => FirstListed(r, c)
        /\ Becomes(h.state)
        /\ last' = [op |-> "handleMove", result |-> h.result]
        /\ played' = IF h.result = "placed" THEN Append(played, C(r, c)) ELSE played

\* A click that places a disc.
LegalMovePlayed ==
    \E r \in Rows, c \in Rows :
        ClickSquare(r, c) /\ last' = [op |-> "handleMove", result |-> "placed"]

PlayNext ==
    \/ \E r \in ClickRange, c \in ClickRange : ClickSquare(r, c)
    \/ PassTimeout

\* One game from initializeGame on: the reset button is not clicked, the
\* player to move does not wait for ever when a legal move exists, and the
\* timer of a pass fires.
PlaySpec ==
    /\ Init
    /\ [][PlayNext]_vars
    /\ WF_vars(LegalMovePlayed)
    /\ WF_vars(PassTimeout)

\* The number of EMPTY cells of the initial board.
MaxMoves == BOARD_SIZE * BOARD_SIZE - 4

\* C18: every game ends: from initializeGame on, if the game is not reset,
\* the player to move eventually plays a legal move whenever one exists and
\* every pass timer eventually fires, then the game eventually reaches its
\* end, and at most 60 successful moves are played in it.
C18_GameTerminates ==
    /\ <>(message.kind = "end")
    /\ [](Len(played) <= MaxMoves)
    /\ [](Len(played) + 4 = DiscsOf(board, BLACK) + DiscsOf(board, WHITE))

\* A game has ended after 60 moves on a full board.
C18_Witness ==
    /\ message.kind = "end"
    /\ Len(played) = MaxMoves
    /\ DiscsOf(board, EMPTY) = 0

\* The eight directions as (row step, column step) in the order up, down,
\* left, right, up-left, up-right, down-left, down-right; row 0 is the top row.
CompassOrder ==
    << <<-1, 0>>, <<1, 0>>, <<0, -1>>, <<0, 1>>,
       <<-1, -1>>, <<-1, 1>>, <<1, -1>>, <<1, 1>> >>

\* The cell j steps from (r, c) along delta.
Along(r, c, delta, j) == [r |-> r + j * delta[1], c |-> c + j * delta[2]]

\* The lengths k for which the k cells next to (r, c) along delta hold
\* opponent discs and the cell after them holds a disc of player; there is
\* none unless the cell next to (r, c) holds an opponent disc.
EnclosedLengths(b, r, c, player, delta) ==
    IF OnBoard(Along(r, c, delta, 1)) /\ At(b, Along(r, c, delta, 1)) = Opponent(player)
    THEN {k \in Lengths :
            /\ OnBoard(Along(r, c, delta, k + 1))
            /\ At(b, Along(r, c, delta, k + 1)) = player
            /\ \A j \in 1 .. k : At(b, Along(r, c, delta, j)) = Opponent(player)}
    ELSE {}

\* The enclosed run along delta, from the cell next to (r, c) outwards: its
\* length is the enclosed length, of which there is at most one, or 0.
RunNearestFirst(b, r, c, player, delta) ==
    [j \in 1 .. Cardinality(UNION {1 .. k : k \in EnclosedLengths(b, r, c, player, delta)})
        |-> Along(r, c, delta, j)]

\* The runs of the directions i, i + 1, ... of CompassOrder, one after the other.
RECURSIVE GroupedFrom(_, _, _, _, _)
GroupedFrom(b, r, c, player, i) ==
    IF i > Len(CompassOrder) THEN << >>
    ELSE RunNearestFirst(b, r, c, player, CompassOrder[i])
            \o GroupedFrom(b, r, c, player, i + 1)

\* C19: for every board, every empty cell (r, c) and both players, the
\* sequence getFlippablePieces(r, c, player) returns is the enclosed runs
\* grouped by direction in the order up, down, left, right, up-left, up-right,
\* down-left, down-right, each run from the cell nearest to (r, c) to the
\* farthest; no cell is listed twice.
C19_FlipListOrder ==
    \A m \in Cells, player \in {BLACK, WHITE} :
        At(board, m) = EMPTY
            => \E flippable \in {getFlippablePieces(board, m.r, m.c, player)} :
                  /\ flippable = GroupedFrom(board, m.r, m.c, player, 1)
                  /\ Cardinality(Range(flippable)) = Len(flippable)

\* Some empty cell has a flip list with a run of two discs or more in one
\* direction and a run in another direction.
C19_Witness ==
    \E m \in Cells, player \in {BLACK, WHITE} :
        /\ At(board, m) = EMPTY
        /\ Len(getFlippablePieces(board, m.r, m.c, player)) >= 3
        /\ \E i \in DOMAIN CompassOrder :
              /\ Len(RunNearestFirst(board, m.r, m.c, player, CompassOrder[i])) >= 2
              /\ \E j \in DOMAIN CompassOrder \ {i} :
                    Len(RunNearestFirst(board, m.r, m.c, player, CompassOrder[j])) >= 1
====
